---- MODULE Spec2Model ----
(***************************************************************************)
(* The ingestion and query pipeline of research_tool (rag.py) with its     *)
(* HTTP boundary (api.py).                                                 *)
(*                                                                         *)
(* process_urls and process_documents are Python generators: the body runs *)
(* only while the caller asks for the next status string, and it is        *)
(* suspended at every yield.  pc is the yield at which the one live        *)
(* generator is suspended; each Urls*/Docs* action is the code between two *)
(* yields.  Strings that the code compares or joins (sources, queries) are *)
(* sequences of character codes.                                           *)
(***************************************************************************)
EXTENDS Integers, Sequences, FiniteSets

\* ---------------------------------------------------------------- bounds
MaxUrls == 2        \* longest URL list handed to process_urls
MaxFiles == 2       \* longest batch handed to process_documents
MaxChunks == 2      \* most chunks the splitter cuts the documents of a run into
MaxRuns == 2        \* ingestion generators created in one process
MaxQueryLen == 2    \* longest query string

\* ------------------------------------------------------------- constants
NL == 10            \* "\n", the separator of the sources string
SP == 32            \* " ", the whitespace str.strip() removes
RetrieverK == 4     \* as_retriever() with no arguments: top 4 chunks

\* ----------------------------------------------------------- strings
Min(a, b) == IF a < b THEN a ELSE b

\* Python's < on str: the first differing character decides, a proper
\* prefix is smaller.
LexLess(s, t) ==
    \E i \in 1..(Min(Len(s), Len(t)) + 1) :
        /\ \A j \in 1..(i - 1) : s[j] = t[j]
        /\ \/ i > Len(s) /\ i <= Len(t)
           \/ i <= Len(s) /\ i <= Len(t) /\ s[i] < t[i]

RECURSIVE SortedMut(_)
\* sorted() with the comparison reversed.
SortedMut(S) ==
    IF S = {} THEN << >>
    ELSE LET m == CHOOSE x \in S : \A y \in S \ {x} : LexLess(y, x)
         IN  <<m>> \o SortedMut(S \ {m})

RECURSIVE Sorted(_)
\* sorted(source_urls): ascending list of the elements of a set of strings.
Sorted(S) ==
    IF S = {} THEN << >>
    ELSE LET m == CHOOSE x \in S : \A y \in S \ {x} : LexLess(x, y)
         IN  <<m>> \o Sorted(S \ {m})

RECURSIVE Join(_, _)
\* sep.join(list)
Join(sep, list) ==
    IF list = << >> THEN << >>
    ELSE IF Len(list) = 1 THEN list[1]
    ELSE list[1] \o <<sep>> \o Join(sep, Tail(list))

RECURSIVE LStrip(_)
LStrip(s) == IF s # << >> /\ Head(s) = SP THEN LStrip(Tail(s)) ELSE s

RECURSIVE RStrip(_)
RStrip(s) ==
    IF s # << >> /\ s[Len(s)] = SP THEN RStrip(SubSeq(s, 1, Len(s) - 1)) ELSE s

\* A strip() that removes nothing.
StripMut(s) == s

\* str.strip()
Strip(s) == RStrip(LStrip(s))

\* str.lower(), on the ASCII letters
Lower(s) == [i \in DOMAIN s |-> IF s[i] \in 65..90 THEN s[i] + 32 ELSE s[i]]

\* needle in hay, for two strings
Contains(hay, needle) ==
    \E i \in 0..(Len(hay) - Len(needle)) :
        SubSeq(hay, i + 1, i + Len(needle)) = needle

\* Python truthiness of a str or a list
Truthy(s) == s # << >>

SeqsUpTo(S, n) == UNION {[1..k -> S] : k \in 0..n}

Range(f) == {f[i] : i \in DOMAIN f}

\* ----------------------------------------------------------- inputs
Urls == {<<97>>, <<97, 98>>}                 \* "a", "ab"
MainUrls == <<<<97, 98>>, <<97>>>>           \* the two URLs of __main__
NameA == <<97, 46, 116, 120, 116>>             \* "a.txt"
NameError == <<69, 114, 114, 111, 114, 46, 112, 100, 102>>  \* "Error.pdf"
FileNames == {NameA, NameError}
Queries == SeqsUpTo({SP, 113}, MaxQueryLen)  \* over " " and "q"

\* The path of the temporary file of file i of run r: "/ri".  mkstemp never
\* hands out the name of an existing file.
TmpPath(r, i) == <<47, 48 + r, 48 + i>>

\* ----------------------------------------------------------- documents
\* A loaded document: its metadata and the number of chunks the splitter
\* cuts its page_content into (0 for empty or whitespace-only text).
Doc(src, n) == [meta |-> {<<"source", src>>}, pieces |-> n]

\* A stored chunk: the parent's metadata, and the identity the uuid gives
\* it (run, document, piece).
Chunk(r, d, k, meta) == [run |-> r, doc |-> d, k |-> k, meta |-> meta]

\* What the persist directory may hold when the process starts.
OldC1 == Chunk(0, 1, 1, {<<"source", <<98>>>>})
OldC2 == Chunk(0, 2, 1, {})
Persisted == {{}, {OldC1, OldC2}}

RECURSIVE Pieces(_)
\* The number of chunks the documents split into.
Pieces(docs) ==
    IF docs = << >> THEN 0 ELSE Head(docs).pieces + Pieces(Tail(docs))

RECURSIVE SplitFrom(_, _, _)
SplitFrom(docs, r, d) ==
    IF d > Len(docs) THEN << >>
    ELSE [k \in 1..docs[d].pieces |-> Chunk(r, d, k, docs[d].meta)]
         \o SplitFrom(docs, r, d + 1)

\* text_splitter.split_documents(docs): the chunks of every document, in
\* order, each carrying its parent's metadata.
SplitDocuments(docs, r) == SplitFrom(docs, r, 1)

\* ----------------------------------------------------------- state
VARIABLES
    llm,            \* rag.llm: "None" or "Client"
    vector_store,   \* rag.vector_store: "None" or "Client"
    collection,     \* the chunks of the Chroma collection (persisted)
    tmpfs,          \* the temporary files of the current run that exist on disk
    mode,           \* the live generator: "none", "urls", "docs"
    program,        \* what the process runs: "api" (api.py under uvicorn)
                    \* or "direct" (main.py, rag.py as a script, a library user)
    pc,             \* the yield it is suspended at
    run,            \* number of generators created so far
    inputs,         \* its argument: urls or uploaded_files
    idx,            \* process_documents: index of the file being processed
    all_docs,       \* data (URL mode) / all_docs (document mode)
    tmp_paths,      \* process_documents: tmp_paths
    split_docs,     \* docs (URL mode) / split_docs (document mode)
    statuses,       \* the status strings yielded so far
    trace,          \* history: the pipeline states the run has entered
    fileLog,        \* history: what happened to each file attempted
    created,        \* history: temporary files created by the run
    added,          \* history: chunks handed to add_documents by the run
    query,          \* outcome of the last generate_answer call
    request,        \* the last HTTP request handled
    response        \* its response

genVars == <<mode, pc, run, inputs, idx, all_docs, tmp_paths,
             split_docs, statuses, trace, fileLog, created, added>>
globVars == <<llm, vector_store, collection, tmpfs>>
httpVars == <<request, response>>
vars == <<llm, vector_store, collection, tmpfs, program, mode, pc, run, inputs,
          idx, all_docs, tmp_paths, split_docs, statuses, trace, fileLog,
          created, added, query, request, response>>

NoQuery == [outcome |-> "none", docs |-> << >>, sources |-> << >>,
            retrieved |-> FALSE, llmCalled |-> FALSE, runs |-> 0, since |-> 0]
NoRequest == [kind |-> "none", input |-> << >>]
NoResponse == [status |-> 0, success |-> FALSE]

Init ==
    /\ llm = "None"
    /\ vector_store = "None"
    /\ collection \in Persisted
    /\ tmpfs = {}
    /\ mode = "none"
    /\ program \in {"api", "direct"}
    /\ pc = "none"
    /\ run = 0
    /\ inputs = << >>
    /\ idx = 0
    /\ all_docs = << >>
    /\ tmp_paths = << >>
    /\ split_docs = << >>
    /\ statuses = << >>
    /\ trace = << >>
    /\ fileLog = << >>
    /\ created = {}
    /\ added = {}
    /\ query = NoQuery
    /\ request = NoRequest
    /\ response = NoResponse

\* ----------------------------------------------------------- singletons
\* initialize_components(): each global is created only when it is None.
InitLlm(l) == IF l = "None" THEN "Client" ELSE l
InitStore(v) == IF v = "None" THEN "Client" ELSE v

\* reset_collection() that keeps the chunks.
ResetCollectionMut(c) == c

\* vector_store.reset_collection(): every stored chunk is discarded.
ResetCollection(c) == {}

\* vector_store.add_documents(docs, ids=uuids)
AddDocuments(c, docs) == c \cup Range(docs)

\* ----------------------------------------------------------- statuses
Status(kind, name, n) == [kind |-> kind, name |-> name, n |-> n]
Emit(s) == statuses' = Append(statuses, s)
Enter(state) == trace' = Append(trace, state)


\* ----------------------------------------------------------- callers
\* The result of a generate_answer call and an HTTP exchange are held until
\* the caller has taken them (Return, SendResponse); every other step runs
\* with no result outstanding.
Quiet == query = NoQuery /\ UNCHANGED query

Idle == pc \in {"none", "finished", "closed"}

\* The temporary files an earlier run left behind are never named again
\* (mkstemp picks fresh names): tmpfs follows the files of the new run.
NewGenerator(m, arg) ==
    /\ mode' = m
    /\ tmpfs' = {}
    /\ pc' = "created"
    /\ run' = run + 1
    /\ inputs' = arg
    /\ idx' = 0
    /\ all_docs' = << >>
    /\ tmp_paths' = << >>
    /\ split_docs' = << >>
    /\ statuses' = << >>
    /\ trace' = << >>
    /\ fileLog' = << >>
    /\ created' = {}
    /\ added' = {}

\* process_urls(urls) called: a generator object is made, no line of the
\* body runs.
CallProcessUrls ==
    /\ program = "direct" /\ Idle /\ run < MaxRuns
    /\ \E urls \in SeqsUpTo(Urls, MaxUrls) : NewGenerator("urls", urls)
    /\ UNCHANGED <<llm, vector_store, collection, program, httpVars>>
    /\ Quiet

\* process_documents(uploaded_files) called: likewise.
CallProcessDocuments ==
    /\ program = "direct" /\ Idle /\ run < MaxRuns
    /\ \E files \in SeqsUpTo(FileNames, MaxFiles) :
           NewGenerator("docs", files)
    /\ UNCHANGED <<llm, vector_store, collection, program, httpVars>>
    /\ Quiet

\* The caller stops consuming: the generator object is dropped where it is
\* suspended (no finally or with block is open at any yield that would run).
Close ==
    /\ program = "direct" /\ ~Idle
    /\ pc' = "closed"
    /\ UNCHANGED <<globVars, program, httpVars, mode, run, inputs, idx, all_docs,
                   tmp_paths, split_docs, statuses, trace, fileLog, created,
                   added>>
    /\ Quiet

\* The response of the handler whose for loop has just ended.
UrlsResponse == [status |-> 200, success |-> TRUE]

\* What the end of the generator means to its consumer.
Finish(resp) ==
    /\ pc' = "finished"
    /\ response' = IF program = "api" THEN resp ELSE response
    /\ UNCHANGED <<program, request>>

\* ----------------------------------------------------------- process_urls
RECURSIVE LoadUrls(_, _, _)
\* UnstructuredURLLoader(urls).load(): a URL that cannot be fetched or parsed
\* is skipped (fate -1), another yields one document whose source is the URL.
LoadUrls(urls, fate, i) ==
    IF i > Len(urls) THEN << >>
    ELSE (IF fate[i] < 0 THEN << >> ELSE <<Doc(urls[i], fate[i])>>)
         \o LoadUrls(urls, fate, i + 1)

UrlsStart ==
    /\ mode = "urls" /\ pc = "created"
    /\ Emit(Status("Initializing", << >>, 0))
    /\ pc' = "y_init"
    /\ UNCHANGED <<globVars, mode, run, inputs, idx, all_docs,
                   tmp_paths, split_docs, trace, fileLog, created, added>>
    /\ Quiet /\ UNCHANGED <<program, httpVars>>

UrlsInit ==
    /\ mode = "urls" /\ pc = "y_init"
    /\ llm' = InitLlm(llm)
    /\ vector_store' = InitStore(vector_store)
    /\ Enter("Init")
    /\ Emit(Status("Resetting", << >>, 0))
    /\ pc' = "y_reset"
    /\ UNCHANGED <<collection, tmpfs, mode, run, inputs, idx, all_docs,
                   tmp_paths, split_docs, fileLog, created, added>>
    /\ Quiet /\ UNCHANGED <<program, httpVars>>

UrlsReset ==
    /\ mode = "urls" /\ pc = "y_reset"
    /\ collection' = ResetCollection(collection)
    /\ Enter("Reset")
    /\ Emit(Status("LoadingData", << >>, 0))
    /\ pc' = "y_loading"
    /\ UNCHANGED <<llm, vector_store, tmpfs, mode, run, inputs, idx,
                   all_docs, tmp_paths, split_docs, fileLog, created, added>>
    /\ Quiet /\ UNCHANGED <<program, httpVars>>

UrlsLoad ==
    /\ mode = "urls" /\ pc = "y_loading"
    /\ \E fate \in [1..Len(inputs) -> -1..MaxChunks] :
        /\ Pieces(LoadUrls(inputs, fate, 1)) <= MaxChunks
        /\ all_docs' = LoadUrls(inputs, fate, 1)
    /\ Enter("Load")
    /\ Emit(Status("SplittingText", << >>, 0))
    /\ pc' = "y_splitting"
    /\ UNCHANGED <<globVars, mode, run, inputs, idx, tmp_paths,
                   split_docs, fileLog, created, added>>
    /\ Quiet /\ UNCHANGED <<program, httpVars>>

UrlsSplit ==
    /\ mode = "urls" /\ pc = "y_splitting"
    /\ split_docs' = SplitDocuments(all_docs, run)
    /\ Enter("Split")
    /\ Emit(Status("AddChunks", << >>, 0))
    /\ pc' = "y_adding"
    /\ UNCHANGED <<globVars, mode, run, inputs, idx, all_docs,
                   tmp_paths, fileLog, created, added>>
    /\ Quiet /\ UNCHANGED <<program, httpVars>>

UrlsAdd ==
    /\ mode = "urls" /\ pc = "y_adding"
    /\ collection' = AddDocuments(collection, split_docs)
    /\ added' = added \cup Range(split_docs)
    /\ trace' = trace \o <<"EmbedStore", "Done">>
    /\ Emit(Status("DoneAdding", << >>, 0))
    /\ pc' = "y_done"
    /\ UNCHANGED <<llm, vector_store, tmpfs, mode, run, inputs, idx,
                   all_docs, tmp_paths, split_docs, fileLog, created>>
    /\ Quiet /\ UNCHANGED <<program, httpVars>>

UrlsFinish ==
    /\ mode = "urls" /\ pc = "y_done"
    /\ Finish(UrlsResponse)
    /\ UNCHANGED <<globVars, mode, run, inputs, idx, all_docs,
                   tmp_paths, split_docs, statuses, trace, fileLog, created,
                   added>>
    /\ Quiet

\* ----------------------------------------------------------- process_documents
\* all_docs = docs instead of all_docs.extend(docs)
ExtendMut(all, docs) == docs

\* all_docs.extend(docs)
Extend(all, docs) == all \o docs

\* A check that never sees an empty batch.
NoDocsLoadedMut(all) == FALSE

\* not all_docs
NoDocsLoaded(all) == ~Truthy(all)

\* The final status with the number of loaded documents in place of the
\* number of chunks.
DoneStatusMut(all, split) == Status("DocsDone", << >>, Len(all))

\* f"Done! Added {len(split_docs)} chunks to vector database. ..."
DoneStatus(all, split) == Status("DocsDone", << >>, Len(split))

\* No return after the failure status: the generator goes on to the split.
AfterFailureMut == "y_splitting"

\* The return after the failure status ends the generator.
AfterFailure == "finished"

\* The body of the for loop for file i up to its first yield: the upload is
\* saved to a temporary file.  NamedTemporaryFile may raise before a file
\* exists; write (or getvalue) may raise after it does, and then the with
\* block closes the file and the path is never appended to tmp_paths.
BeginFile(i) ==
    /\ idx' = i
    /\ \E fate \in {"CreateFails", "WriteFails", "Saved"} :
        /\ tmpfs' = IF fate = "CreateFails" THEN tmpfs
                    ELSE tmpfs \cup {TmpPath(run, i)}
        /\ created' = IF fate = "CreateFails" THEN created
                      ELSE created \cup {TmpPath(run, i)}
        /\ tmp_paths' = IF fate = "Saved"
                        THEN Append(tmp_paths, TmpPath(run, i)) ELSE tmp_paths
        /\ fileLog' = IF fate = "Saved" THEN fileLog
                      ELSE Append(fileLog, [name |-> inputs[i],
                                            outcome |-> "error", docs |-> << >>])
        /\ Emit(IF fate = "Saved" THEN Status("LoadingFile", inputs[i], 0)
                ELSE Status("Error", inputs[i], 0))
        /\ pc' = IF fate = "Saved" THEN "y_file_loading" ELSE "y_file_end"

\* The code after the for loop up to its yield: the temporary files in
\* tmp_paths are unlinked (unlinking a closed file of the process's own in
\* the temporary directory succeeds), then the batch is judged.
AfterLoop(tr) ==
    /\ tmpfs' = tmpfs \ Range(tmp_paths)
    /\ IF NoDocsLoaded(all_docs)
       THEN /\ Emit(Status("NoDocuments", << >>, 0))
            /\ trace' = Append(tr, "Failed")
            /\ pc' = "y_fail"
       ELSE /\ Emit(Status("SplittingDocs", << >>, Len(all_docs)))
            /\ trace' = tr
            /\ pc' = "y_splitting"
    /\ UNCHANGED <<idx, tmp_paths, created, fileLog>>

DocsStart ==
    /\ mode = "docs" /\ pc = "created"
    /\ Emit(Status("Initializing", << >>, 0))
    /\ pc' = "y_init"
    /\ UNCHANGED <<globVars, mode, run, inputs, idx, all_docs,
                   tmp_paths, split_docs, trace, fileLog, created, added>>
    /\ Quiet /\ UNCHANGED <<program, httpVars>>

DocsInit ==
    /\ mode = "docs" /\ pc = "y_init"
    /\ llm' = InitLlm(llm)
    /\ vector_store' = InitStore(vector_store)
    /\ Enter("Init")
    /\ Emit(Status("Resetting", << >>, 0))
    /\ pc' = "y_reset"
    /\ UNCHANGED <<collection, tmpfs, mode, run, inputs, idx, all_docs,
                   tmp_paths, split_docs, fileLog, created, added>>
    /\ Quiet /\ UNCHANGED <<program, httpVars>>

\* From the "Resetting" yield: the reset, then the loop up to the first yield.
DocsReset ==
    /\ mode = "docs" /\ pc = "y_reset"
    /\ collection' = ResetCollection(collection)
    /\ IF Len(inputs) > 0
       THEN BeginFile(1) /\ trace' = trace \o <<"Reset", "Load">>
       ELSE AfterLoop(trace \o <<"Reset", "Load">>)
    /\ UNCHANGED <<llm, vector_store, mode, run, inputs, all_docs,
                   split_docs, added>>
    /\ Quiet /\ UNCHANGED <<program, httpVars>>

\* From "Loading <name>...": the loader for the extension is built and run.
\* It raises (fate -2), returns no document (fate -1) or returns one document
\* whose source is the temporary path.
DocsLoadFile ==
    /\ mode = "docs" /\ pc = "y_file_loading"
    /\ \E fate \in -2..(MaxChunks - Pieces(all_docs)) :
        LET docs == IF fate >= 0
                    THEN <<Doc(TmpPath(run, idx), fate)>> ELSE << >>
        IN  /\ all_docs' = IF Truthy(docs) THEN Extend(all_docs, docs)
                           ELSE all_docs
            /\ fileLog' = Append(fileLog,
                   [name |-> inputs[idx],
                    outcome |-> IF fate = -2 THEN "error"
                                ELSE IF Truthy(docs) THEN "loaded" ELSE "empty",
                    docs |-> docs])
            /\ Emit(IF fate = -2 THEN Status("Error", inputs[idx], 0)
                    ELSE IF Truthy(docs)
                         THEN Status("Loaded", inputs[idx], Len(docs))
                         ELSE Status("Warning", inputs[idx], 0))
    /\ pc' = "y_file_end"
    /\ UNCHANGED <<globVars, mode, run, inputs, idx, tmp_paths,
                   split_docs, trace, created, added>>
    /\ Quiet /\ UNCHANGED <<program, httpVars>>

\* From the last yield of a file: the next file, or the end of the loop.
DocsNextFile ==
    /\ mode = "docs" /\ pc = "y_file_end"
    /\ IF idx < Len(inputs)
       THEN BeginFile(idx + 1) /\ UNCHANGED trace
       ELSE AfterLoop(trace)
    /\ UNCHANGED <<llm, vector_store, collection, mode, run, inputs,
                   all_docs, split_docs, added>>
    /\ Quiet /\ UNCHANGED <<program, httpVars>>

DocsSplit ==
    /\ mode = "docs" /\ pc = "y_splitting"
    /\ split_docs' = SplitDocuments(all_docs, run)
    /\ Enter("Split")
    /\ Emit(Status("Created", << >>, Len(split_docs')))
    /\ pc' = "y_created"
    /\ UNCHANGED <<globVars, mode, run, inputs, idx, all_docs,
                   tmp_paths, fileLog, created, added>>
    /\ Quiet /\ UNCHANGED <<program, httpVars>>

DocsCreated ==
    /\ mode = "docs" /\ pc = "y_created"
    /\ Emit(Status("AddingChunks", << >>, 0))
    /\ pc' = "y_adding"
    /\ UNCHANGED <<globVars, mode, run, inputs, idx, all_docs,
                   tmp_paths, split_docs, trace, fileLog, created, added>>
    /\ Quiet /\ UNCHANGED <<program, httpVars>>

DocsAdd ==
    /\ mode = "docs" /\ pc = "y_adding"
    /\ collection' = AddDocuments(collection, split_docs)
    /\ added' = added \cup Range(split_docs)
    /\ trace' = trace \o <<"EmbedStore", "Done">>
    /\ Emit(DoneStatus(all_docs, split_docs))
    /\ pc' = "y_done"
    /\ UNCHANGED <<llm, vector_store, tmpfs, mode, run, inputs, idx,
                   all_docs, tmp_paths, split_docs, fileLog, created>>
    /\ Quiet /\ UNCHANGED <<program, httpVars>>

\* The substrings the callers of process_documents look for in a status.
DoneWord == <<68, 111, 110, 101, 33>>                    \* "Done!"
ChunksPhrase ==                                        \* "chunks to vector database"
    <<99, 104, 117, 110, 107, 115, 32, 116, 111, 32, 118, 101, 99, 116, 111, 114, 32, 100, 97, 116, 97, 98, 97, 115, 101>>
CrossMark == <<10060>>                                 \* the cross mark emoji
ErrorWord == <<69, 114, 114, 111, 114>>                 \* "Error"
FailedWord == <<102, 97, 105, 108, 101, 100>>            \* "failed"

\* The statuses whose text has uploaded_file.name in it.  The name stands
\* between blanks, dots and brackets of the fixed text, so that a marker
\* lies either in the fixed text or in the name.
EchoesName(s) == s.kind \in {"LoadingFile", "Loaded", "Warning", "Error"}

\* "Done!" in msg or "chunks to vector database" in msg: the fixed text of
\* "Adding chunks to vector database...", of "Done! Added N chunks to vector
\* database. ..." and of process_urls' "Add chunks to vector database..."
\* has it, and so has any status that echoes a file name that has it.
HasDoneMarker(s) ==
    \/ s.kind \in {"DocsDone", "AddingChunks", "AddChunks"}
    \/ /\ EchoesName(s)
       /\ Contains(s.name, DoneWord) \/ Contains(s.name, ChunksPhrase)

\* "❌" in msg or "Error" in msg or "failed" in msg.lower(): the fixed text
\* of the per-file error status and of the no-documents status has it, and
\* so has any status that echoes a file name that has it.
HasErrorMarker(s) ==
    \/ s.kind \in {"Error", "NoDocuments"}
    \/ /\ EchoesName(s)
       /\ \/ Contains(s.name, CrossMark)
          \/ Contains(s.name, ErrorWord)
          \/ Contains(Lower(s.name), FailedWord)

RECURSIVE DocTabFlags(_)
\* The two flags of the Streamlit document tab after its for loop over the
\* statuses: each starts False and is set by any status with the marker.
DocTabFlags(msgs) ==
    IF msgs = << >> THEN [success |-> FALSE, error_occurred |-> FALSE]
    ELSE LET before == DocTabFlags(SubSeq(msgs, 1, Len(msgs) - 1))
             status == msgs[Len(msgs)]
         IN  [success |-> before.success \/ HasDoneMarker(status),
              error_occurred |-> before.error_occurred
                                    \/ HasErrorMarker(status)]

\* if success and not error_occurred: the tab shows the success message.
DocTabSuccess(msgs) ==
    DocTabFlags(msgs).success /\ ~DocTabFlags(msgs).error_occurred

\* The response of process_documents_endpoint once its for loop has ended.
DocsResponse(msgs) ==
    [status |-> 200,
     success |-> /\ \E i \in DOMAIN msgs : HasDoneMarker(msgs[i])
                 /\ ~\E i \in DOMAIN msgs : HasErrorMarker(msgs[i])]

\* From the failure status: return.
DocsReturn ==
    /\ mode = "docs" /\ pc = "y_fail"
    /\ pc' = AfterFailure
    /\ response' = IF program = "api" /\ AfterFailure = "finished"
                   THEN DocsResponse(statuses) ELSE response
    /\ UNCHANGED <<program, request>>
    /\ UNCHANGED <<globVars, mode, run, inputs, idx, all_docs,
                   tmp_paths, split_docs, statuses, trace, fileLog, created,
                   added>>
    /\ Quiet

\* From the final status: the generator is exhausted.
DocsFinish ==
    /\ mode = "docs" /\ pc = "y_done"
    /\ Finish(DocsResponse(statuses))
    /\ UNCHANGED <<globVars, mode, run, inputs, idx, all_docs,
                   tmp_paths, split_docs, statuses, trace, fileLog, created,
                   added>>
    /\ Quiet

\* ----------------------------------------------------------- generate_answer
\* retriever.invoke(query): the top RetrieverK chunks of the collection, in
\* an order the similarity search decides.
Retrievals(c) ==
    {s \in [1..Min(RetrieverK, Cardinality(c)) -> c] :
        \A i, j \in DOMAIN s : i # j => s[i] # s[j]}

HasSource(d) == \E p \in d.meta : p[1] = "source"
SourceOf(d) == (CHOOSE p \in d.meta : p[1] = "source")[2]

\* source_urls after the loop over docs
SourceUrls(docs) == {SourceOf(docs[i]) : i \in {j \in DOMAIN docs : HasSource(docs[j])}}

\* "\n".join(sorted(source_urls)) if source_urls else ""
SourcesString(docs) ==
    IF SourceUrls(docs) # {} THEN Join(NL, Sorted(SourceUrls(docs))) ELSE << >>

\* generate_answer(query): the effect on the globals and the result.
GenerateAnswer ==
    LET first == vector_store = "None"
        l1 == IF first THEN InitLlm(llm) ELSE llm
        v1 == IF first THEN InitStore(vector_store) ELSE vector_store
        stamp == [runs |-> run, since |-> IF pc = "finished" THEN run ELSE 0]
    IN  /\ llm' = l1
        /\ vector_store' = v1
        /\ IF v1 = "None"
           THEN query' = [outcome |-> "RuntimeError", docs |-> << >>,
                          sources |-> << >>, retrieved |-> FALSE,
                          llmCalled |-> FALSE, runs |-> stamp.runs,
                          since |-> stamp.since]
           ELSE \E docs \in Retrievals(collection) :
                    query' = [outcome |-> "answer", docs |-> docs,
                              sources |-> SourcesString(docs),
                              retrieved |-> TRUE, llmCalled |-> TRUE,
                              runs |-> stamp.runs, since |-> stamp.since]
        /\ UNCHANGED <<collection, tmpfs>>

\* A direct call of generate_answer (the Streamlit script, a library user).
CallGenerateAnswer ==
    /\ program = "direct" /\ query = NoQuery
    /\ GenerateAnswer
    /\ UNCHANGED <<genVars, program, httpVars>>

\* The caller has the (answer, sources) pair of its generate_answer call.
Return ==
    /\ program = "direct" /\ query # NoQuery
    /\ query' = NoQuery
    /\ UNCHANGED <<globVars, genVars, program, httpVars>>

\* rag.py run as a script in a fresh process: process_urls(urls) is called
\* and its generator dropped unconsumed, then generate_answer is called.
Main ==
    /\ program = "direct" /\ query = NoQuery
    /\ pc = "none" /\ run = 0 /\ llm = "None" /\ vector_store = "None"
    /\ mode' = "urls" /\ run' = run + 1
    /\ inputs' = MainUrls
    /\ pc' = "closed"
    /\ GenerateAnswer
    /\ UNCHANGED <<idx, all_docs, tmp_paths, split_docs, statuses, trace,
                   fileLog, created, added, program, httpVars>>

\* ----------------------------------------------------------- api.py
\* The handlers are async functions that consume the generator in a plain for
\* loop: no other request is served until the loop has ended (Idle).
BadRequest == [status |-> 400, success |-> FALSE]
Pending == NoResponse

NewRequest(kind, input) == request' = [kind |-> kind, input |-> input]

\* POST /api/process-urls
ProcessUrlsEndpoint ==
    /\ program = "api" /\ Idle /\ request = NoRequest
    /\ \E urls \in SeqsUpTo(Urls, MaxUrls) :
        /\ NewRequest("process-urls", urls)
        /\ IF ~Truthy(urls) \/ Len(urls) = 0
           THEN response' = BadRequest /\ UNCHANGED <<genVars, tmpfs>>
           ELSE /\ run < MaxRuns
                /\ response' = Pending
                /\ NewGenerator("urls", urls)
    /\ Quiet
    /\ UNCHANGED <<llm, vector_store, collection, program>>

\* POST /api/process-documents
ProcessDocumentsEndpoint ==
    /\ program = "api" /\ Idle /\ request = NoRequest
    /\ \E files \in SeqsUpTo(FileNames, MaxFiles) :
        /\ NewRequest("process-documents", files)
        /\ IF ~Truthy(files) \/ Len(files) = 0
           THEN response' = BadRequest /\ UNCHANGED <<genVars, tmpfs>>
           ELSE /\ run < MaxRuns
                /\ response' = Pending
                /\ NewGenerator("docs", files)
    /\ Quiet
    /\ UNCHANGED <<llm, vector_store, collection, program>>

\* POST /api/query
QueryEndpoint ==
    /\ program = "api" /\ Idle /\ request = NoRequest
    /\ \E q \in Queries :
        /\ NewRequest("query", q)
        /\ IF ~Truthy(q) \/ ~Truthy(Strip(q))
           THEN /\ response' = BadRequest
                /\ Quiet
                /\ UNCHANGED globVars
           ELSE /\ GenerateAnswer
                /\ response' = IF query'.outcome = "RuntimeError"
                               THEN BadRequest
                               ELSE [status |-> 200, success |-> TRUE]
    /\ UNCHANGED <<genVars, program>>

\* The generator object and the locals of the handler that consumed it
\* (status_messages, file_wrappers) are unreachable once the handler has
\* returned: what stays of the run is its effect on the globals.
DropGenerator ==
    /\ mode' = "none"
    /\ pc' = "none"
    /\ inputs' = << >>
    /\ idx' = 0
    /\ all_docs' = << >>
    /\ tmp_paths' = << >>
    /\ split_docs' = << >>
    /\ statuses' = << >>
    /\ trace' = << >>
    /\ fileLog' = << >>
    /\ created' = {}
    /\ added' = {}
    /\ UNCHANGED run

\* The response of the handler that has returned goes out to the client.
SendResponse ==
    /\ program = "api" /\ Idle /\ request # NoRequest
    /\ request' = NoRequest
    /\ response' = NoResponse
    /\ query' = NoQuery
    /\ DropGenerator
    /\ UNCHANGED <<globVars, program>>

Next ==
    \/ CallProcessUrls
    \/ CallProcessDocuments
    \/ Close
    \/ UrlsStart
    \/ UrlsInit
    \/ UrlsReset
    \/ UrlsLoad
    \/ UrlsSplit
    \/ UrlsAdd
    \/ UrlsFinish
    \/ DocsStart
    \/ DocsInit
    \/ DocsReset
    \/ DocsLoadFile
    \/ DocsNextFile
    \/ DocsSplit
    \/ DocsCreated
    \/ DocsAdd
    \/ DocsReturn
    \/ DocsFinish
    \/ CallGenerateAnswer
    \/ Main
    \/ ProcessUrlsEndpoint
    \/ ProcessDocumentsEndpoint
    \/ QueryEndpoint
    \/ Return
    \/ SendResponse

Spec == Init /\ [][Next]_vars

\* ----------------------------------------------------------- properties
Last(s) == s[Len(s)]
IsPrefix(s, t) == Len(s) <= Len(t) /\ s = SubSeq(t, 1, Len(s))
FullPath == <<"Init", "Reset", "Load", "Split", "EmbedStore", "Done">>
FailedPath == <<"Init", "Reset", "Load", "Failed">>

\* The generator has yielded its last status string.
FinalStatusOut == pc \in {"y_done", "y_fail", "finished"}

\* The load stage of the run is over.
LoadOver ==
    pc \in {"y_fail", "y_splitting", "y_created", "y_adding", "y_done", "finished"}

\* C1: once an ingestion run has been consumed to its end the collection
\* holds exactly the chunks that run added, none of an earlier run (or of
\* the persisted store), and a generate_answer call made after the end of
\* the latest run retrieves chunks of that run only.
C1_ResetIsolation ==
    /\ pc = "finished" =>
           /\ collection = added
           /\ \A c \in collection : c.run = run
    /\ (query.outcome = "answer" /\ query.since # 0) =>
           \A i \in DOMAIN query.docs : query.docs[i].run = query.since

\* A query after the second run of the process retrieved chunks.
C1_Witness ==
    /\ query.outcome = "answer" /\ query.since = 2
    /\ Len(query.docs) = 2

\* C2 (as claimed): generate_answer in a process in which no ingestion run
\* has happened raises RuntimeError, retrieves nothing and calls no model.
C2_UninitializedStoreRejected ==
    (query.outcome # "none" /\ query.runs = 0) =>
        /\ query.outcome = "RuntimeError"
        /\ ~query.retrieved
        /\ ~query.llmCalled

\* Every file of the batch has been attempted and none loaded a document.
AllFilesFailed ==
    /\ Len(fileLog) = Len(inputs)
    /\ \A i \in DOMAIN fileLog : fileLog[i].outcome # "loaded"

\* C3: a process_documents run in which every file fails to load or loads
\* zero documents never enters the split or the add step, adds no chunk,
\* and ends with the failure status as its last status string.
C3_EmptyCorpusTerminus ==
    (mode = "docs" /\ AllFilesFailed) =>
        /\ pc \notin {"y_splitting", "y_created", "y_adding", "y_done"}
        /\ added = {} /\ split_docs = << >>
        /\ "Split" \notin Range(trace) /\ "EmbedStore" \notin Range(trace)
        /\ FinalStatusOut => Last(statuses).kind = "NoDocuments"

\* A batch of two, one file raising and one loading nothing, has ended.
C3_Witness ==
    /\ mode = "docs" /\ pc = "finished" /\ Len(inputs) = 2
    /\ AllFilesFailed
    /\ fileLog[1].outcome = "error" /\ fileLog[2].outcome = "empty"
    /\ Last(statuses).kind = "NoDocuments"

RECURSIVE LoggedDocs(_)
\* The documents of the files that loaded, in input order.
LoggedDocs(log) ==
    IF log = << >> THEN << >> ELSE Head(log).docs \o LoggedDocs(Tail(log))

IsError(s) == s.kind = "Error"
IsErrorEntry(e) == e.outcome = "error"

\* C4: in process_documents the files are attempted in input order, a
\* failing file yields exactly one error status and does not stop the loop,
\* and the documents of every file that loaded are all split and stored.
C4_PerFileFailureIsolated ==
    mode = "docs" =>
        /\ Len(fileLog) <= Len(inputs)
        /\ \A i \in DOMAIN fileLog : fileLog[i].name = inputs[i]
        /\ LoadOver => Len(fileLog) = Len(inputs)
        /\ LET errs == SelectSeq(statuses, IsError)
               bad == SelectSeq(fileLog, IsErrorEntry)
           IN  /\ Len(errs) = Len(bad)
               /\ \A i \in DOMAIN errs : errs[i].name = bad[i].name
        /\ all_docs = LoggedDocs(fileLog)
        /\ pc \in {"y_created", "y_adding", "y_done", "finished"} =>
               split_docs = SplitDocuments(LoggedDocs(fileLog), run)
        /\ pc \in {"y_done", "finished"} =>
               /\ added = Range(SplitDocuments(LoggedDocs(fileLog), run))
               /\ added \subseteq collection

\* A batch whose first file failed and whose later files loaded was stored.
C4_Witness ==
    /\ mode = "docs" /\ pc = "finished" /\ Len(inputs) = 2
    /\ fileLog[1].outcome = "error" /\ fileLog[2].outcome = "loaded"
    /\ added # {}

\* C5 (as claimed): in both modes a run follows Init, Reset, Load, Split,
\* Embed&Store, Done in that order, and leaves Load for Failed exactly when
\* zero documents were loaded.
C5_FailedIffNothingLoaded ==
    mode \in {"urls", "docs"} =>
        /\ IsPrefix(trace, FullPath) \/ trace = FailedPath
        /\ LoadOver => ("Failed" \in Range(trace) <=> all_docs = << >>)

\* C5 (amended): in both modes a run follows Init, Reset, Load, Split,
\* Embed&Store, Done in that order with no state revisited; a document-mode
\* run leaves Load for Failed exactly when zero documents were loaded; a
\* URL-mode run never enters Failed and goes through Split and Embed&Store
\* to Done also when zero documents were loaded.
C5_StateMachine ==
    /\ mode \in {"urls", "docs"} =>
           /\ IsPrefix(trace, FullPath) \/ trace = FailedPath
           /\ pc = "finished" => trace \in {FullPath, FailedPath}
    /\ mode = "docs" =>
           (LoadOver => ("Failed" \in Range(trace) <=> all_docs = << >>))
    /\ mode = "urls" =>
           /\ "Failed" \notin Range(trace)
           /\ pc = "finished" => trace = FullPath

\* A URL run that loaded nothing went all the way to Done.
C5_Witness ==
    /\ mode = "urls" /\ pc = "finished" /\ Len(inputs) = 2
    /\ all_docs = << >> /\ trace = FullPath

\* A status string that states the number n.
MentionsCount(s, n) ==
    s.kind \in {"DocsDone", "Created", "SplittingDocs", "Loaded"} /\ s.n = n

C7_RunsToCompletion ==
    pc = "closed" => (trace # << >> /\ Last(trace) \in {"Done", "Failed"})

\* C8 (as claimed): when a process_documents run has ended, no temporary
\* file it created exists.
C8_TempFilesRemoved ==
    (mode = "docs" /\ pc = "finished") => created \cap tmpfs = {}

\* An empty URL or file list, or an empty or whitespace-only query.
InvalidInput(req) ==
    \/ req.kind \in {"process-urls", "process-documents"} /\ req.input = << >>
    \/ req.kind = "query" /\ \A i \in DOMAIN req.input : req.input[i] = SP

\* C9: a request with an empty URL list, an empty file list or an empty or
\* whitespace-only query is answered 400 and does no pipeline work: the
\* singletons, the collection and the generator state are untouched and
\* there is no retrieval and no model call.
C9_InvalidInputRejected ==
    [][(request = NoRequest /\ request' # NoRequest /\ InvalidInput(request'))
         => /\ response'.status = 400
            /\ UNCHANGED <<llm, vector_store, collection, tmpfs, genVars>>
            /\ query' = NoQuery]_vars

\* A whitespace-only query was rejected in a process that has a corpus on
\* disk and has initialized nothing.
C9_Witness ==
    /\ request.kind = "query" /\ request.input = <<SP, SP>>
    /\ response.status = 400
    /\ llm = "None" /\ vector_store = "None" /\ collection # {}

Permutations(s) ==
    {p \in [DOMAIN s -> DOMAIN s] : \A i, j \in DOMAIN s : i # j => p[i] # p[j]}

\* C10: the sources string is the newline-joined, strictly ascending list of
\* the distinct source values of the retrieved chunks, empty when no chunk
\* has one, and it is the same for every order of the same chunks.
C10_SourcesSortedUnique ==
    query.outcome = "answer" =>
        LET docs == query.docs
            S == {SourceOf(docs[i]) : i \in {j \in DOMAIN docs : HasSource(docs[j])}}
        IN  /\ \E list \in [1..Cardinality(S) -> S] :
                   /\ Range(list) = S
                   /\ \A i, j \in DOMAIN list : i < j => LexLess(list[i], list[j])
                   /\ query.sources = Join(NL, list)
            /\ S = {} => query.sources = << >>
            /\ \A p \in Permutations(docs) :
                   SourcesString([i \in DOMAIN docs |-> docs[p[i]]]) = query.sources

\* Chunks of "ab" and "a" were retrieved in that order: sources is "a\nab".
C10_Witness ==
    /\ query.outcome = "answer" /\ Len(query.docs) = 2
    /\ \A i \in DOMAIN query.docs : HasSource(query.docs[i])
    /\ SourceOf(query.docs[1]) = <<97, 98>>
    /\ SourceOf(query.docs[2]) = <<97>>
    /\ query.sources = <<97, NL, 97, 98>>

\* The generator is suspended after its reset_collection() call and before
\* its add_documents call.
BetweenResetAndAdd ==
    \/ mode = "urls" /\ pc \in {"y_loading", "y_splitting", "y_adding"}
    \/ mode = "docs" /\ pc \in {"y_file_loading", "y_file_end", "y_fail",
                                 "y_splitting", "y_created", "y_adding"}

\* C11: nothing excludes a query from an ingestion run. A generate_answer
\* call made while the run is between its store reset and its add reads an
\* empty store: it retrieves zero chunks and cites no source, whatever the
\* store held before the run and whatever the run is about to add.
C11_QueryInsideRunSeesEmptyStore ==
    (program = "direct" /\ query.outcome = "answer" /\ BetweenResetAndAdd)
        => /\ query.retrieved /\ query.llmCalled
           /\ query.docs = << >>
           /\ query.sources = << >>
           /\ collection = {}

\* A query answered from nothing while the run holds chunks it is about to
\* add (the store holds a corpus once the run resumes).
C11_Witness ==
    /\ program = "direct" /\ query.outcome = "answer"
    /\ pc = "y_adding" /\ split_docs # << >>
    /\ query.retrieved /\ query.docs = << >>
    /\ collection = {}

\* The run yielded its terminal "Done! Added N chunks ..." status.
EmittedDone(msgs) == \E i \in DOMAIN msgs : msgs[i].kind = "DocsDone"

\* No file of the batch ended in the except branch of the loop.
NoFileFailed == \A i \in DOMAIN fileLog : ~IsErrorEntry(fileLog[i])

\* C12: once a process_documents run has been consumed to its end, the
\* success flag of its caller (the success field of the /api/process-documents
\* response, the success branch of the Streamlit document tab) is true
\* exactly when the run yielded its terminal Done status and no file of the
\* batch failed to load, whatever the names of the files are.
C12_SuccessFlagIgnoresNames ==
    (mode = "docs" /\ pc = "finished") =>
        LET expected == EmittedDone(statuses) /\ NoFileFailed
        IN  /\ program = "direct" => DocTabSuccess(statuses) = expected
            /\ (/\ program = "api"
                /\ request.kind = "process-documents"
                /\ response.status = 200)
                   => response.success = expected

====
